---- MODULE Spec2Model ----
(***************************************************************************)
(* Gesture controller and object picker of the holiday-tree scene.         *)
(*                                                                         *)
(* One rendered frame runs the useFrame callbacks in subscription order:   *)
(* HandController.useFrame (classifier + debounced state controller), then *)
(* PhotoCloud.useFrame (object picker).  Both callbacks close over the     *)
(* appState of the last committed React render; setAppState and            *)
(* setActivePhotoId only enqueue updates, which React applies in order in  *)
(* the re-render that follows the frame.  rayRef, gestureTimeoutRef,       *)
(* wasPinchingRef and lastVideoTimeRef are refs and change at once.        *)
(*                                                                         *)
(* Units: time in milliseconds; hand distances and coordinates in          *)
(* hundredths of the normalized camera frame; squared world distances in   *)
(* tenths.                                                                 *)
(***************************************************************************)
EXTENDS Integers, Sequences, FiniteSets, TLC

\* ---------------------------------------------------------------- bounds
StartTime == 250        \* Date.now() at the first rendered frame
MaxTime == 2750         \* frames are generated while Date.now() <= MaxTime
MaxVideoTime == 1       \* video.currentTime takes the values 0..MaxVideoTime
MaxRays == 2            \* at most MaxRays rays are constructed in a run
NumPhotos == 2          \* photos in the cloud (children of the group)
MaxCands == 3           \* longest candidate list given to the scan alone

TimeSteps == {0, 500}           \* Date.now() advance between rendered frames
DistValues == {20, 49, 50, 60}  \* squared distances 2.0, 4.9, 5.0, 6.0

\* ------------------------------------------------------ program constants
PinchCooldown == 500
SwitchCooldown == 1000
PickThreshold == 50
NoHit == 0 - 1
PinchThreshold == 8
LoosePinchThreshold == 15

CHAOS == "CHAOS"
FORMED == "FORMED"
PHOTO_VIEW == "PHOTO_VIEW"
AppState == {CHAOS, FORMED, PHOTO_VIEW}

Unscanned == 0 - 2
NoRay == 0              \* rayRef.current = null
NoPhoto == 0 - 1        \* activePhotoId = null
NoHand == "nohand"      \* results.landmarks empty
NoTime == 0 - 1         \* no such frame within the window

VARIABLES
    pc,                 \* next step: "controller", "picker" or "render"
    clock,              \* Date.now()
    ready,              \* landmarker loaded and video.readyState >= 2
    appState,           \* App's committed appState
    appStateQueue,      \* setAppState calls not yet rendered, in call order
    activePhotoId,      \* PhotoCloud's committed activePhotoId
    activeQueue,        \* setActivePhotoId calls not yet rendered
    gesture,            \* Scene's gesture, as of the latest setGesture
    hand,               \* results.landmarks of the latest detection
    lastVideoTimeRef,
    gestureTimeoutRef,
    wasPinchingRef,
    rayRef,             \* NoRay or the identity of the pending ray
    raysMade,           \* rays constructed so far (identity of the latest)
    frame,              \* what the current frame did (observation only)
    hist,               \* verdicts of the last two processed frames
    pinchLost,          \* 1: the latest processed frame had no hand and the
                        \* one before it was a Pinch frame; 2: a Pinch frame
                        \* followed those two; 0 otherwise
    rayScanned,         \* the pending ray was scanned in an earlier frame
    lastHit,            \* identity of the latest ray that picked a photo
    fistRun,            \* observation of a run of Fist frames, see FistRunNext
    switchedAt,         \* Date.now() of the controller's latest setAppState
                        \* while within SwitchCooldown of it, else NoTime
    pinchedAt,          \* Date.now() of the latest Pinch frame while within
                        \* PinchCooldown of it, else NoTime
    pickDists,          \* candidate distances given to the scan alone
    pickResult          \* result of the scan alone

vars == <<pc, clock, ready, appState, appStateQueue, activePhotoId,
          activeQueue, gesture, hand, lastVideoTimeRef, gestureTimeoutRef,
          wasPinchingRef, rayRef, raysMade, frame, hist, pinchLost,
          rayScanned, lastHit, fistRun, switchedAt, pinchedAt, pickDists,
          pickResult>>

pickVars == <<pickDists, pickResult>>

\* ------------------------------------------------------------ classifier
\* A detected hand is given by what the classifier measures on its 21
\* landmarks: for the fingers index, middle, ring, pinky (1..4) the
\* distances wrist-tip and wrist-MCP, the thumb tip - index tip distance,
\* the palm width (landmarks 5-17), the spread width (landmarks 8-20), and
\* the four points the pointer is taken from.
Fingers == <<1, 2, 3, 4>>
NonIndex == <<2, 3, 4>>

RECURSIVE Den(_, _)
Den(h, fs) == IF fs = <<>> THEN 1 ELSE h.mcp[Head(fs)] * Den(h, Tail(fs))

RECURSIVE Num(_, _)
Num(h, fs) ==
    IF fs = <<>> THEN 0
    ELSE h.tip[Head(fs)] * Den(h, Tail(fs)) + h.mcp[Head(fs)] * Num(h, Tail(fs))

\* getRatio divides by getDist(mcpIdx): a zero divisor gives Infinity, or
\* NaN when the tip distance is zero too.
HasNaN(h, fs) == \E i \in 1..Len(fs) : h.mcp[fs[i]] = 0 /\ h.tip[fs[i]] = 0
HasInf(h, fs) == ~HasNaN(h, fs) /\ \E i \in 1..Len(fs) : h.mcp[fs[i]] = 0

\* mean of the curl ratios of the fingers fs  <  c100 / 100
AvgLess(h, fs, c100) ==
    /\ ~HasNaN(h, fs)
    /\ ~HasInf(h, fs)
    /\ 100 * Num(h, fs) < c100 * Len(fs) * Den(h, fs)

\* mean of the curl ratios of the fingers fs  >  c100 / 100
AvgGreater(h, fs, c100) ==
    /\ ~HasNaN(h, fs)
    /\ \/ HasInf(h, fs)
       \/ 100 * Num(h, fs) > c100 * Len(fs) * Den(h, fs)

\* Variant: the loose pointer threshold decides the pinch candidate.
isPinchCandidateLoose(h) == h.pinchDist < LoosePinchThreshold

isPinchCandidate(h) == h.pinchDist < PinchThreshold

\* Variant: spreadWidth is divided by palmWidth as it is; a zero palm
\* width gives Infinity, or NaN when the spread width is zero too.
SpreadWideUnguarded(h) ==
    IF h.palmWidth = 0 THEN h.spreadWidth > 0
    ELSE 10 * h.spreadWidth > 16 * h.palmWidth

\* spreadFactor > 1.6, with spreadFactor = spreadWidth / (palmWidth || 1)
SpreadWide(h) ==
    10 * h.spreadWidth > 16 * (IF h.palmWidth = 0 THEN 100 ELSE h.palmWidth)

IsFist(h) == AvgLess(h, Fingers, 135)

\* Variant: rule 2 is tried without rule 1 having failed.
IsPinchNoFistGuard(h) ==
    /\ isPinchCandidate(h)
    /\ AvgGreater(h, NonIndex, 120)

IsPinch(h) ==
    /\ ~IsFist(h)
    /\ isPinchCandidate(h)
    /\ AvgGreater(h, NonIndex, 120)

\* Variant: rule 3 is an if of its own, not the chain's last else.
IsOpenNoElse(h) ==
    \/ AvgGreater(h, Fingers, 150)
    \/ SpreadWide(h) /\ AvgGreater(h, Fingers, 125)

IsOpen(h) ==
    /\ ~IsFist(h)
    /\ ~IsPinch(h)
    /\ \/ AvgGreater(h, Fingers, 150)
       \/ SpreadWide(h) /\ AvgGreater(h, Fingers, 125)

\* Variant: the pointer's x is the raw x.
PositionUnmirrored(h) ==
    LET a == IF IsPinch(h) \/ h.pinchDist < LoosePinchThreshold
             THEN h.thumbTip ELSE h.indexMcp
        b == IF IsPinch(h) \/ h.pinchDist < LoosePinchThreshold
             THEN h.indexTip ELSE h.pinkyMcp
    IN  <<a[1] + b[1], a[2] + b[2]>>

\* The pointer, in two-hundredths of the frame (twice the midpoint's
\* coordinates), x mirrored.
Position(h) ==
    LET a == IF IsPinch(h) \/ h.pinchDist < LoosePinchThreshold
             THEN h.thumbTip ELSE h.indexMcp
        b == IF IsPinch(h) \/ h.pinchDist < LoosePinchThreshold
             THEN h.indexTip ELSE h.pinkyMcp
    IN  <<200 - (a[1] + b[1]), a[2] + b[2]>>

\* Variant: the pointer without a hand is the frame's corner.
CenterAtOrigin == <<0, 0>>

Center == <<100, 100>>

Classify(h) ==
    [isFist |-> IsFist(h), isOpen |-> IsOpen(h), isPinch |-> IsPinch(h),
     position |-> Position(h)]

NoGesture ==
    [isFist |-> FALSE, isOpen |-> FALSE, isPinch |-> FALSE, position |-> Center]

\* The verdict as a tag.
Verdict(g) ==
    IF g.isFist THEN "Fist"
    ELSE IF g.isPinch THEN "Pinch"
    ELSE IF g.isOpen THEN "Open"
    ELSE "None"

\* Hands the landmark source delivers to the controller.
MkHand(tips, mcps, pinch, palm, spread) ==
    [tip |-> tips, mcp |-> mcps, pinchDist |-> pinch, palmWidth |-> palm,
     spreadWidth |-> spread, thumbTip |-> <<30, 40>>, indexTip |-> <<34, 44>>,
     indexMcp |-> <<40, 60>>, pinkyMcp |-> <<60, 64>>]

FistHand == MkHand(<<10, 10, 10, 10>>, <<10, 10, 10, 10>>, 30, 10, 10)
PinchHand == MkHand(<<14, 16, 16, 16>>, <<10, 10, 10, 10>>, 5, 10, 12)
OpenHand == MkHand(<<18, 18, 18, 18>>, <<10, 10, 10, 10>>, 30, 10, 20)
NoneHand == MkHand(<<14, 14, 14, 14>>, <<10, 10, 10, 10>>, 30, 10, 15)
Hands == {FistHand, PinchHand, OpenHand, NoneHand}

\* ---------------------------------------------------------------- picker
Infinity == 999999

\* The scan over the group's children from child i on; child i is
\* photos[i - 1], whose id is i - 1.
\* Variant: a child as close as the closest so far replaces it.
CloserOrEqual(dist, closestDist) ==
    dist < PickThreshold /\ dist <= closestDist

\* Variant: a child at exactly the threshold can be picked.
CloserAtThreshold(dist, closestDist) ==
    dist <= PickThreshold /\ dist < closestDist

\* A child at squared distance dist replaces the closest one so far.
Closer(dist, closestDist) == dist < PickThreshold /\ dist < closestDist

RECURSIVE ScanFrom(_, _, _, _)
ScanFrom(dists, i, closestDist, closestId) ==
    IF i > Len(dists) THEN closestId
    ELSE IF Closer(dists[i], closestDist)
         THEN ScanFrom(dists, i + 1, dists[i], i - 1)
         ELSE ScanFrom(dists, i + 1, closestDist, closestId)

Scan(dists) == ScanFrom(dists, 1, Infinity, NoHit)

\* ------------------------------------------------------------ observation
NewFrame ==
    [processed |-> FALSE, verdict |-> "skipped", emitted |-> FALSE,
     due |-> FALSE, ctrlSet |-> "none", scanRay |-> NoRay, near |-> FALSE,
     picked |-> NoHit, leftPhoto |-> FALSE]

\* The observation at the start of a frame; leftPhoto: the render before
\* this frame took appState from PHOTO_VIEW to CHAOS.
FrameStart == [NewFrame EXCEPT !.leftPhoto = frame.leftPhoto]

Last2(s) == IF Len(s) > 2 THEN Tail(s) ELSE s

LastVerdict == IF hist = <<>> THEN "skipped" ELSE hist[Len(hist)]

Min(a, b) == IF a < b THEN a ELSE b

\* fistRun.len: 0 outside a run of processed Fist frames that began with
\* appState = CHAOS and an expired cooldown, 1 from the run's first frame
\* on, 2 from its second frame on.  fistRun.sets: setAppState calls since
\* the run began (counted up to 2).
FistRunNext(tag, began) ==
    IF tag # "Fist" THEN [len |-> 0, sets |-> 0]
    ELSE IF fistRun.len = 0
         THEN [len |-> IF began THEN 1 ELSE 0, sets |-> 0]
         ELSE [len |-> 2, sets |-> fistRun.sets]

\* The time t of an observed frame, kept while now is within window of it.
Within(t, window, now) ==
    IF t # NoTime /\ now <= t + window THEN t ELSE NoTime

CountSets(run, n) ==
    IF run.len = 0 THEN run ELSE [run EXCEPT !.sets = Min(2, @ + n)]

\* ------------------------------------------------------------ controller
\* Variant: a ray that is still pending is kept and the new one dropped.
handlePinchKeepFirst(ray) == rayRef' = IF rayRef = NoRay THEN ray ELSE rayRef

\* handlePinch (Scene): the ray handed to onPinch becomes the pending ray.
handlePinch(ray) == rayRef' = ray

\* Variant: every pinch frame calls onPinch.
RisingEveryPinch(g) == g.isPinch

\* The pinch frame that calls onPinch.
Rising(g) == g.isPinch /\ ~wasPinchingRef

\* Variant: a pinch frame sets no cooldown.
PinchTimeoutNone(g, now) == gestureTimeoutRef

\* Variant: only the pinch frame that calls onPinch sets the cooldown.
PinchTimeoutRisingOnly(g, now) ==
    IF g.isPinch /\ ~wasPinchingRef THEN now + PinchCooldown
    ELSE gestureTimeoutRef

\* gestureTimeoutRef after the pinch action.
PinchTimeout(g, now) ==
    IF g.isPinch THEN now + PinchCooldown ELSE gestureTimeoutRef

\* Variant: the gate opens at the cooldown's end, not after it.
SwitchingNonStrict(g, now, timeout) == now >= timeout /\ ~g.isPinch

\* The gate of the state switching.
Switching(g, now, timeout) == now > timeout /\ ~g.isPinch

\* Variant: the rules do not look at the current state.
TargetAnyState(g, switching) ==
    IF switching /\ g.isFist THEN FORMED
    ELSE IF switching /\ g.isOpen THEN CHAOS
    ELSE "none"

\* Variant: Fist forms the tree from every state but FORMED.
TargetFistFromPhoto(g, switching) ==
    LET toFormed == switching /\ g.isFist /\ appState # FORMED
        toChaos == switching /\ ~g.isFist /\ g.isOpen
                   /\ appState \in {FORMED, PHOTO_VIEW}
    IN  IF toFormed THEN FORMED ELSE IF toChaos THEN CHAOS ELSE "none"

\* The state the switching rules request, "none" when they request none.
Target(g, switching) ==
    LET toFormed == switching /\ g.isFist /\ appState = CHAOS
        toChaos == switching /\ ~g.isFist /\ g.isOpen
                   /\ appState \in {FORMED, PHOTO_VIEW}
    IN  IF toFormed THEN FORMED ELSE IF toChaos THEN CHAOS ELSE "none"

\* The actions of a processed frame with a detected hand, at time now.
Actions(g, now) ==
    LET rising == Rising(g)
        timeout1 == PinchTimeout(g, now)
        switching == Switching(g, now, timeout1)
        target == Target(g, switching)
    IN  /\ IF rising
           THEN /\ raysMade' = raysMade + 1
                /\ handlePinch(raysMade + 1)
                /\ rayScanned' = FALSE
           ELSE UNCHANGED <<raysMade, rayRef, rayScanned>>
        /\ wasPinchingRef' = g.isPinch
        /\ appStateQueue' = IF target = "none" THEN appStateQueue
                            ELSE Append(appStateQueue, target)
        /\ gestureTimeoutRef' = IF target = "none" THEN timeout1
                                ELSE now + SwitchCooldown
        /\ frame' = [FrameStart EXCEPT !.processed = TRUE, !.verdict = Verdict(g),
                                     !.emitted = rising, !.ctrlSet = target,
                                     !.due = (now > gestureTimeoutRef)]
        /\ hist' = Last2(Append(hist, Verdict(g)))
        /\ pinchLost' = IF pinchLost = 1 /\ Verdict(g) = "Pinch" THEN 2 ELSE 0
        /\ fistRun' = CountSets(
               FistRunNext(Verdict(g),
                           appState = CHAOS /\ now > gestureTimeoutRef),
               IF target = "none" THEN 0 ELSE 1)

\* Variant: without the early return the frame acts on whatever the
\* detection gives.
NotReadyFrameRuns(now) ==
    /\ ~ready
    /\ UNCHANGED lastVideoTimeRef
    /\ \E h \in Hands :
         /\ hand' = h
         /\ gesture' = Classify(h)
         /\ IsPinch(h) /\ ~wasPinchingRef => raysMade < MaxRays
         /\ Actions(Classify(h), now)

\* HandController.useFrame returns at once: no video, no landmarker, or the
\* video is not ready.
NotReadyFrame(now) ==
    /\ ~ready
    /\ frame' = FrameStart
    /\ UNCHANGED <<gesture, hand, lastVideoTimeRef, gestureTimeoutRef,
                   wasPinchingRef, rayRef, raysMade, appStateQueue, hist,
                   pinchLost, rayScanned, fistRun>>

\* Variant: the frame is detected and acted on although video.currentTime
\* has not changed.
SkippedFrameReprocess(now, videoTime) ==
    /\ ready
    /\ videoTime = lastVideoTimeRef
    /\ lastVideoTimeRef' = videoTime
    /\ \E h \in Hands :
         /\ hand' = h
         /\ gesture' = Classify(h)
         /\ IsPinch(h) /\ ~wasPinchingRef => raysMade < MaxRays
         /\ Actions(Classify(h), now)

\* No new video frame since the previous poll.
SkippedFrame(now, videoTime) ==
    /\ ready
    /\ videoTime = lastVideoTimeRef
    /\ frame' = FrameStart
    /\ UNCHANGED <<gesture, hand, lastVideoTimeRef, gestureTimeoutRef,
                   wasPinchingRef, rayRef, raysMade, appStateQueue, hist,
                   pinchLost, rayScanned, fistRun>>

\* A new video frame with a hand in it.
HandFrame(now, videoTime, h) ==
    /\ ready
    /\ videoTime # lastVideoTimeRef
    /\ lastVideoTimeRef' = videoTime
    /\ hand' = h
    /\ gesture' = Classify(h)
    /\ IsPinch(h) /\ ~wasPinchingRef => raysMade < MaxRays
    /\ Actions(Classify(h), now)

\* Variant: a frame with no hand leaves wasPinchingRef alone.
WasPinchingKept == wasPinchingRef

\* wasPinchingRef after a frame with no hand.
WasPinchingNoHand == FALSE

\* A new video frame with no hand in it.
NoHandFrame(now, videoTime) ==
    /\ ready
    /\ videoTime # lastVideoTimeRef
    /\ lastVideoTimeRef' = videoTime
    /\ hand' = NoHand
    /\ gesture' = NoGesture
    /\ wasPinchingRef' = WasPinchingNoHand
    /\ frame' = [FrameStart EXCEPT !.processed = TRUE, !.verdict = NoHand]
    /\ hist' = Last2(Append(hist, NoHand))
    /\ pinchLost' = IF LastVerdict = "Pinch" THEN 1 ELSE 0
    /\ fistRun' = FistRunNext(NoHand, FALSE)
    /\ UNCHANGED <<gestureTimeoutRef, rayRef, raysMade, rayScanned,
                   appStateQueue>>

\* The values video.currentTime can have when a frame reads it.
VideoTimes == 0..MaxVideoTime

\* HandController.useFrame
HandControllerFrame ==
    /\ pc = "controller"
    /\ \E dt \in TimeSteps :
         /\ clock + dt <= MaxTime
         /\ clock' = clock + dt
         /\ \/ NotReadyFrame(clock + dt)
            \/ \E vt \in VideoTimes :
                 \/ SkippedFrame(clock + dt, vt)
                 \/ NoHandFrame(clock + dt, vt)
                 \/ \E h \in Hands : HandFrame(clock + dt, vt, h)
    /\ switchedAt' = IF frame'.ctrlSet # "none" THEN clock'
                     ELSE Within(switchedAt, SwitchCooldown, clock')
    /\ pinchedAt' = IF frame'.verdict = "Pinch" THEN clock'
                    ELSE Within(pinchedAt, PinchCooldown, clock')
    /\ pc' = "picker"
    /\ UNCHANGED <<ready, appState, activePhotoId, activeQueue, lastHit>>
    /\ UNCHANGED pickVars

\* The landmarker has loaded and the video has data (HandController's init
\* effect has run to its end and the camera delivers).
SourceReady ==
    /\ pc = "controller"
    /\ ~ready
    /\ ready' = TRUE
    /\ UNCHANGED <<pc, clock, appState, appStateQueue, activePhotoId,
                   activeQueue, gesture, hand, lastVideoTimeRef, gestureTimeoutRef,
                   wasPinchingRef, rayRef, raysMade, frame, hist, pinchLost,
                   rayScanned, lastHit, fistRun, switchedAt,
                   pinchedAt>>
    /\ UNCHANGED pickVars

\* ----------------------------------------------------------------- picker
\* Variant: a hit leaves the ray pending.
RayKept == rayRef

\* rayRef after a hit ("consume the click").
RayAfterHit == NoRay

\* Variant: the picker scans whenever a ray is pending.
ScanGuardAnyState == rayRef # NoRay

\* The picker scans: a ray is pending and the state is not PHOTO_VIEW.
ScanGuard == rayRef # NoRay /\ appState # PHOTO_VIEW

\* Variant: the selection is cleared on every frame that does not scan.
ClearGuardAnyState == TRUE

\* A frame that does not scan clears the selection outside PHOTO_VIEW.
ClearGuard == appState # PHOTO_VIEW

\* PhotoCloud.useFrame, the part that decides the selection; dists are the
\* squared distances of the children's world positions to the pending ray.
PhotoCloudFrame ==
    /\ pc = "picker"
    /\ \E dists \in [1..NumPhotos -> DistValues] :
         IF ScanGuard
         THEN LET closestId == Scan(dists)
              IN  /\ rayScanned' = (closestId = NoHit)
                  /\ frame' = [frame EXCEPT
                         !.scanRay = rayRef,
                         !.near = \E i \in 1..NumPhotos :
                                      dists[i] < PickThreshold,
                         !.picked = closestId]
                  /\ IF closestId # NoHit
                     THEN /\ activeQueue' = Append(activeQueue, closestId)
                          /\ appStateQueue' = Append(appStateQueue, PHOTO_VIEW)
                          /\ rayRef' = RayAfterHit
                          /\ lastHit' = rayRef
                          /\ fistRun' = CountSets(fistRun, 1)
                     ELSE UNCHANGED <<activeQueue, appStateQueue, rayRef,
                                      lastHit, fistRun>>
         ELSE /\ activeQueue' = IF ClearGuard
                                THEN Append(activeQueue, NoPhoto)
                                ELSE activeQueue
              /\ UNCHANGED <<rayScanned, frame, appStateQueue, rayRef,
                             lastHit, fistRun>>
    /\ pc' = "render"
    /\ UNCHANGED <<clock, ready, appState, activePhotoId, gesture, hand,
                   lastVideoTimeRef, gestureTimeoutRef, wasPinchingRef,
                   raysMade, hist, pinchLost, switchedAt, pinchedAt>>
    /\ UNCHANGED pickVars

\* ----------------------------------------------------------------- render
\* React applies the queued state updates in call order and re-renders;
\* the next frame's callbacks close over the new values.
Apply(value, queue) == IF queue = <<>> THEN value ELSE queue[Len(queue)]

Render ==
    /\ pc = "render"
    /\ appState' = Apply(appState, appStateQueue)
    /\ activePhotoId' = Apply(activePhotoId, activeQueue)
    /\ appStateQueue' = <<>>
    /\ activeQueue' = <<>>
    /\ pc' = "controller"
    /\ frame' = [NewFrame EXCEPT
           !.leftPhoto = (appState = PHOTO_VIEW
                          /\ Apply(appState, appStateQueue) = CHAOS)]
    /\ UNCHANGED <<clock, ready, gesture, hand, lastVideoTimeRef,
                   gestureTimeoutRef, wasPinchingRef, rayRef, raysMade, hist,
                   pinchLost,
                   rayScanned, lastHit, fistRun, switchedAt,
                   pinchedAt>>
    /\ UNCHANGED pickVars

\* ------------------------------------------------------------------ system
InitState ==
    /\ clock = StartTime
    /\ ready = FALSE
    /\ appState = FORMED
    /\ appStateQueue = <<>>
    /\ activePhotoId = NoPhoto
    /\ activeQueue = <<>>
    /\ gesture = NoGesture
    /\ lastVideoTimeRef = 0 - 1
    /\ gestureTimeoutRef = 0
    /\ wasPinchingRef = FALSE
    /\ rayRef = NoRay
    /\ raysMade = 0
    /\ frame = NewFrame
    /\ hist = <<>>
    /\ pinchLost = 0
    /\ rayScanned = FALSE
    /\ lastHit = NoRay
    /\ fistRun = [len |-> 0, sets |-> 0]
    /\ switchedAt = NoTime
    /\ pinchedAt = NoTime

InitMain ==
    /\ pc = "controller"
    /\ hand = NoHand
    /\ InitState

Init ==
    /\ InitMain
    /\ pickDists = <<>>
    /\ pickResult = Unscanned

Next ==
    \/ SourceReady
    \/ HandControllerFrame
    \/ PhotoCloudFrame
    \/ Render

Spec == Init /\ [][Next]_vars

\* ------------------------------------------------------- the scan alone
\* Every candidate list of up to MaxCands squared distances.
CandLists == UNION {[1..n -> DistValues] : n \in 0..MaxCands}

InitPick ==
    /\ InitMain
    /\ pickDists \in CandLists
    /\ pickResult = Unscanned

PickScan ==
    /\ pickResult = Unscanned
    /\ pickResult' = Scan(pickDists)
    /\ UNCHANGED <<pc, clock, ready, appState, appStateQueue, activePhotoId,
                   activeQueue, gesture, hand, lastVideoTimeRef, gestureTimeoutRef,
                   wasPinchingRef, rayRef, raysMade, frame, hist, pinchLost,
                   rayScanned, lastHit, fistRun, switchedAt, pinchedAt,
                   pickDists>>

NextPick == PickScan

SpecPick == InitPick /\ [][NextPick]_vars

\* ================================================================ claims
\* The state the frame's queued setAppState calls lead to.
Requested == Apply(appState, appStateQueue)

\* The step of HandController.useFrame.
ControllerStep == pc = "controller" /\ pc' = "picker"

\* C1: from appState = CHAOS with an expired cooldown, Fist on every
\* processed frame causes exactly one transition, CHAOS -> FORMED on the
\* first frame of the run, and the state is FORMED from then on: since the
\* run began exactly one setAppState call was made and the state it leads
\* to is FORMED.
C1_FistTransitionsOnce ==
    fistRun.len >= 1 => fistRun.sets = 1 /\ Requested = FORMED

\* C2: the controller requests a state change only on a frame with
\* now > gestureTimeoutRef whose verdict is not Pinch; on every other frame
\* it leaves the application state as it is.
C2_SwitchOnlyAfterCooldown ==
    [][ControllerStep
         /\ (clock' <= gestureTimeoutRef \/ frame'.verdict = "Pinch")
       => appStateQueue' = appStateQueue /\ appState' = appState]_vars

C2_Witness ==
    /\ pc = "picker"
    /\ frame.verdict = "Open"
    /\ hist = <<"Fist", "Open">>
    /\ appState = FORMED
    /\ clock = gestureTimeoutRef
    /\ appStateQueue = <<>>

\* C3: no step assigns gestureTimeoutRef a value smaller than the one it
\* held (Date.now() never decreases here).
C3_CooldownMonotonic ==
    [][gestureTimeoutRef' >= gestureTimeoutRef]_vars

\* C4: within one frame the application state is requested to change at
\* most once: the controller's switch and the picker's PHOTO_VIEW request
\* never both happen.
C4_OneTransitionPerFrame == Len(appStateQueue) <= 1

\* C5: a ray is constructed and handed to onPinch exactly on the processed
\* frames whose verdict is Pinch while the previous processed frame's
\* verdict was not Pinch, and on no other step.
C5_RayOnRisingEdge ==
    [][/\ raysMade' # raysMade
          <=> (ControllerStep /\ frame'.verdict = "Pinch"
               /\ LastVerdict # "Pinch")
       /\ raysMade' # raysMade
          => raysMade' = raysMade + 1 /\ rayRef' = raysMade']_vars

C5_Witness ==
    /\ pc = "picker"
    /\ frame.verdict = "Pinch"
    /\ hist = <<"Pinch", "Pinch">>
    /\ raysMade = 1
    /\ ~frame.emitted

\* C6: a Pinch frame, then a frame with no hand, then a Pinch frame: the
\* second Pinch frame hands a new ray to onPinch.
C6_PinchAfterLossIsRising ==
    pc = "picker" /\ frame.processed /\ pinchLost = 2
    => rayRef = raysMade /\ rayRef # NoRay /\ ~rayScanned /\ frame.emitted

C6_Witness ==
    /\ pc = "picker"
    /\ pinchLost = 2
    /\ hist = <<NoHand, "Pinch">>
    /\ raysMade = 2
    /\ rayRef = 2

\* C7: once the picker has scanned with a ray, hit or miss, the ray is
\* cleared.
C7_RayClearedOnRead ==
    pc = "render" /\ frame.scanRay # NoRay => rayRef = NoRay

\* C8: a scan outside PHOTO_VIEW with a candidate under the threshold sets
\* the selection to the picked id, requests PHOTO_VIEW and clears the
\* pending ray in that frame; no ray picks twice.
C8_HitSelectsAndConsumes ==
    /\ [](pc = "render" /\ frame.scanRay # NoRay /\ frame.near
          => /\ frame.picked \in 0..(NumPhotos - 1)
             /\ Apply(activePhotoId, activeQueue) = frame.picked
             /\ Requested = PHOTO_VIEW
             /\ rayRef = NoRay)
    /\ [][lastHit' # lastHit => lastHit' > lastHit]_vars

C8_Witness ==
    /\ pc = "render"
    /\ frame.near
    /\ frame.scanRay = 1
    /\ lastHit = 1
    /\ frame.picked = 1
    /\ appState = CHAOS
    /\ activePhotoId = NoPhoto

\* C9: the scan returns the id of the candidate of least squared distance
\* among those under the threshold, the first of them in list order, and
\* no-hit when there is none.
Under(dists) == {i \in 1..Len(dists) : dists[i] < PickThreshold}

C9_ScanPicksNearest ==
    pickResult # Unscanned =>
        IF Under(pickDists) = {}
        THEN pickResult = NoHit
        ELSE /\ pickResult + 1 \in Under(pickDists)
             /\ \A j \in Under(pickDists) :
                    \/ pickDists[pickResult + 1] < pickDists[j]
                    \/ pickDists[pickResult + 1] = pickDists[j]
                       /\ pickResult + 1 <= j

C9_Witness ==
    /\ pickDists = <<49, 20, 20>>
    /\ pickResult = 1

\* C10: after a processed frame with an Open verdict, state FORMED or
\* PHOTO_VIEW and an expired cooldown, the state becomes CHAOS.
C10_OpenLeadsToChaos ==
    /\ pc = "render"
    /\ frame.verdict = "Open"
    /\ frame.due
    /\ appState \in {FORMED, PHOTO_VIEW}
    => Requested = CHAOS

\* C11: the combinations outside the two switching rules are no-ops: on a
\* processed frame with Fist while FORMED or PHOTO_VIEW, with Open while
\* CHAOS, or with a None verdict, the controller requests no state change
\* and leaves gestureTimeoutRef as it was.
OutsideRules(verdict, state) ==
    \/ verdict = "Fist" /\ state \in {FORMED, PHOTO_VIEW}
    \/ verdict = "Open" /\ state = CHAOS
    \/ verdict = "None"

C11_OtherCombinationsNoOp ==
    [][ControllerStep /\ OutsideRules(frame'.verdict, appState)
       => /\ appStateQueue' = appStateQueue
          /\ appState' = appState
          /\ gestureTimeoutRef' = gestureTimeoutRef]_vars

C11_Witness ==
    /\ pc = "picker"
    /\ frame.verdict = "Fist"
    /\ frame.due
    /\ appState = FORMED
    /\ hist = <<"Open", "Fist">>
    /\ appStateQueue = <<>>

\* A held pinch frame hands no ray to onPinch.
NoRayMade == raysMade' = raysMade /\ rayRef' = rayRef

\* A rising pinch frame hands a new ray to onPinch.
RayMade == raysMade' = raysMade + 1 /\ rayRef' = raysMade'

\* C12 as stated: the rising-edge pinch frame sets gestureTimeoutRef to
\* now + 500 and emits the ray; a held pinch frame emits no ray and leaves
\* gestureTimeoutRef unchanged.
C12_HeldPinchKeepsCooldown ==
    [][ControllerStep /\ frame'.verdict = "Pinch"
       => IF ~wasPinchingRef
          THEN RayMade /\ gestureTimeoutRef' = clock' + PinchCooldown
          ELSE NoRayMade /\ gestureTimeoutRef' = gestureTimeoutRef]_vars

\* C12 amended: every Pinch frame, rising or held, sets gestureTimeoutRef
\* to now + 500; only the rising-edge frame emits a ray.
C12_EveryPinchSetsCooldown ==
    [][ControllerStep /\ frame'.verdict = "Pinch"
       => /\ gestureTimeoutRef' = clock' + PinchCooldown
          /\ IF ~wasPinchingRef THEN RayMade ELSE NoRayMade]_vars

C12_Witness ==
    /\ pc = "picker"
    /\ frame.verdict = "Pinch"
    /\ hist = <<"Pinch", "Pinch">>
    /\ ~frame.emitted
    /\ frame.due
    /\ gestureTimeoutRef = clock + PinchCooldown

\* The step of PhotoCloud.useFrame.
PickerStep == pc = "picker" /\ pc' = "render"

\* C13: in PHOTO_VIEW the picker does not scan: whatever ray is pending
\* and whatever pinch edge the frame had, the picker step scans no ray,
\* requests no selection and no state change, and keeps the pending ray.
C13_NoScanInPhotoView ==
    [][PickerStep /\ appState = PHOTO_VIEW
       => /\ frame'.scanRay = NoRay
          /\ activeQueue' = activeQueue
          /\ activeQueue = <<>>
          /\ activePhotoId' = activePhotoId
          /\ appStateQueue' = appStateQueue
          /\ rayRef' = rayRef]_vars

C13_Witness ==
    /\ pc = "render"
    /\ appState = PHOTO_VIEW
    /\ frame.emitted
    /\ rayRef = 2
    /\ frame.scanRay = NoRay
    /\ activePhotoId \in 0..(NumPhotos - 1)
    /\ activeQueue = <<>>

\* C14: when appState has gone from PHOTO_VIEW to CHAOS (by the Open
\* gesture), the first picker frame that runs in CHAOS clears the
\* selection, also when a ray is pending (a frame that picks a photo anew
\* is left aside).
C14_SelectionClearedOnExit ==
    pc = "render" /\ frame.leftPhoto /\ frame.picked = NoHit
    => Apply(activePhotoId, activeQueue) = NoPhoto

\* C15: a picker miss (a ray is scanned, no candidate is under the
\* threshold) changes nothing: the picker step requests no state change
\* and no selection, and the committed state and selection stay; when the
\* missed ray is the one the frame's own pinch emitted, nothing at all is
\* requested in the frame.
C15_MissHasNoEffect ==
    /\ [][PickerStep /\ frame'.scanRay # NoRay /\ ~frame'.near
          => /\ appStateQueue' = appStateQueue
             /\ activeQueue' = activeQueue
             /\ appState' = appState
             /\ activePhotoId' = activePhotoId]_vars
    /\ [](pc = "render" /\ frame.emitted /\ frame.scanRay # NoRay
          /\ ~frame.near
          => appStateQueue = <<>> /\ activeQueue = <<>>)

C15_Witness ==
    /\ pc = "render"
    /\ frame.scanRay = 1
    /\ ~frame.near
    /\ frame.picked = NoHit
    /\ frame.emitted
    /\ appState = FORMED
    /\ appStateQueue = <<>>
    /\ activeQueue = <<>>

\* C16: on a rendered frame that finds video.currentTime unchanged since
\* the previous poll the classifier and the controller do not run: no
\* state change is requested, gestureTimeoutRef, wasPinchingRef and the
\* published gesture stay, and no ray is emitted.
C16_RepeatedFrameSkipped ==
    [][ControllerStep /\ ready /\ lastVideoTimeRef' = lastVideoTimeRef
       => /\ ~frame'.processed
          /\ appStateQueue' = appStateQueue
          /\ appState' = appState
          /\ gestureTimeoutRef' = gestureTimeoutRef
          /\ wasPinchingRef' = wasPinchingRef
          /\ gesture' = gesture
          /\ raysMade' = raysMade
          /\ rayRef' = rayRef]_vars

C16_Witness ==
    /\ pc = "picker"
    /\ ready
    /\ lastVideoTimeRef >= 0
    /\ ~frame.processed
    /\ gesture.isOpen
    /\ appState = FORMED
    /\ clock > gestureTimeoutRef
    /\ appStateQueue = <<>>

\* C17: a processed frame with no hand publishes the verdict None with the
\* pointer at (0.5, 0.5) and sets wasPinchingRef to false; it requests no
\* state change, leaves gestureTimeoutRef alone and emits no ray.
C17_NoHandResets ==
    [][ControllerStep /\ frame'.verdict = NoHand
       => /\ gesture'.isFist = FALSE
          /\ gesture'.isOpen = FALSE
          /\ gesture'.isPinch = FALSE
          /\ gesture'.position = <<100, 100>>
          /\ wasPinchingRef' = FALSE
          /\ appStateQueue' = appStateQueue
          /\ appState' = appState
          /\ gestureTimeoutRef' = gestureTimeoutRef
          /\ raysMade' = raysMade
          /\ rayRef' = rayRef]_vars

C17_Witness ==
    /\ pc = "picker"
    /\ frame.verdict = NoHand
    /\ hist = <<"Pinch", NoHand>>
    /\ ~wasPinchingRef
    /\ gesture.position = <<100, 100>>
    /\ rayRef = 1
    /\ clock < gestureTimeoutRef

\* C18: as long as the landmark source has not become available, on every
\* frame the application state keeps its initial value FORMED, no ray has
\* been emitted and the published gesture is "no fist, no open, no pinch,
\* pointer (0.5, 0.5)".
C18_SourceNeverReady ==
    ~ready
    => /\ appState = FORMED
       /\ appStateQueue = <<>>
       /\ raysMade = 0
       /\ rayRef = NoRay
       /\ gesture.isFist = FALSE
       /\ gesture.isOpen = FALSE
       /\ gesture.isPinch = FALSE
       /\ gesture.position = <<100, 100>>

C18_Witness ==
    /\ ~ready
    /\ pc = "render"
    /\ clock >= StartTime + 2000
    /\ appState = FORMED
    /\ gesture.position = <<100, 100>>

\* ------------------------------------------------- the classifier alone
\* (wrist-tip, wrist-MCP) distances of one finger: curl ratios 1.0, 1.2,
\* 1.35, 1.5, 1.8, and the finger's MCP (and tip) on the wrist.
FingerPairs ==
    {<<20, 20>>, <<24, 20>>, <<27, 20>>, <<30, 20>>, <<36, 20>>,
     <<0, 0>>, <<10, 0>>}

\* Thumb tip, index tip and their distance: distances 0.05, 0.08, 0.12,
\* 0.15 and 0.30, around the thresholds 0.08 and 0.15.  The first pair's
\* midpoint has x = 0.3.
PinchPoints ==
    {<<<<28, 40>>, <<32, 43>>, 5>>, <<<<30, 40>>, <<30, 48>>, 8>>,
     <<<<30, 40>>, <<30, 52>>, 12>>, <<<<30, 40>>, <<39, 52>>, 15>>,
     <<<<30, 40>>, <<48, 64>>, 30>>}

\* Index MCP, pinky MCP, their distance (palm width) and the spread width:
\* spread factors 1.6 and 1.7, and a zero palm width with spread widths 1.5
\* and 1.7.
PalmSpreads ==
    {<<<<40, 60>>, <<46, 68>>, 10, 16>>, <<<<40, 60>>, <<46, 68>>, 10, 17>>,
     <<<<40, 60>>, <<40, 60>>, 0, 150>>, <<<<40, 60>>, <<40, 60>>, 0, 170>>}

ClassifyHands ==
    {[MkHand(<<f1[1], f2[1], f3[1], f4[1]>>, <<f1[2], f2[2], f3[2], f4[2]>>,
             pp[3], ps[3], ps[4])
        EXCEPT !.thumbTip = pp[1], !.indexTip = pp[2],
               !.indexMcp = ps[1], !.pinkyMcp = ps[2]] :
        f1 \in FingerPairs, f2 \in FingerPairs, f3 \in FingerPairs,
        f4 \in FingerPairs, pp \in PinchPoints, ps \in PalmSpreads}

InitClassify ==
    /\ pc = "classify"
    /\ hand \in ClassifyHands
    /\ InitState
    /\ pickDists = <<>>
    /\ pickResult = Unscanned

\* The gesture classification of HandController.useFrame on the hand.
ClassifyStep ==
    /\ pc = "classify"
    /\ pc' = "classified"
    /\ gesture' = Classify(hand)
    /\ UNCHANGED <<clock, ready, appState, appStateQueue, activePhotoId,
                   activeQueue, hand, lastVideoTimeRef, gestureTimeoutRef,
                   wasPinchingRef, rayRef, raysMade, frame, hist, pinchLost,
                   rayScanned, lastHit, fistRun, switchedAt,
                   pinchedAt>>
    /\ UNCHANGED pickVars

\* The detection finds no hand: the else branch of the landmark test.
ClassifyNoHand ==
    /\ pc = "classify"
    /\ pc' = "nohand"
    /\ hand' = NoHand
    /\ gesture' = NoGesture
    /\ UNCHANGED <<clock, ready, appState, appStateQueue, activePhotoId,
                   activeQueue, lastVideoTimeRef, gestureTimeoutRef,
                   wasPinchingRef, rayRef, raysMade, frame, hist, pinchLost,
                   rayScanned, lastHit, fistRun, switchedAt,
                   pinchedAt>>
    /\ UNCHANGED pickVars

NextClassify == ClassifyStep \/ ClassifyNoHand

SpecClassify == InitClassify /\ [][NextClassify]_vars

\* The four curl ratios of the classified hand, written out: every ratio is
\* a number (no zero divisor), and their sum times the product of the
\* divisors is compared with 4 * c100 / 100 times that product.
AllRatiosFinite == \A i \in 1..4 : hand.mcp[i] > 0

SomeRatioNaN == \E i \in 1..4 : hand.mcp[i] = 0 /\ hand.tip[i] = 0

RatioSum4 ==
    hand.tip[1] * hand.mcp[2] * hand.mcp[3] * hand.mcp[4]
    + hand.tip[2] * hand.mcp[1] * hand.mcp[3] * hand.mcp[4]
    + hand.tip[3] * hand.mcp[1] * hand.mcp[2] * hand.mcp[4]
    + hand.tip[4] * hand.mcp[1] * hand.mcp[2] * hand.mcp[3]

RatioDen4 == hand.mcp[1] * hand.mcp[2] * hand.mcp[3] * hand.mcp[4]

\* avgRatio < 1.35
AvgRatioBelowFist == AllRatiosFinite /\ 100 * RatioSum4 < 540 * RatioDen4

\* avgRatio >= 1.35 (Infinity included, NaN excluded)
AvgRatioAtLeastFist ==
    /\ ~SomeRatioNaN
    /\ \/ ~AllRatiosFinite
       \/ 100 * RatioSum4 >= 540 * RatioDen4

NonIndexFinite == \A i \in 2..4 : hand.mcp[i] > 0

NonIndexNaN == \E i \in 2..4 : hand.mcp[i] = 0 /\ hand.tip[i] = 0

RatioSum3 ==
    hand.tip[2] * hand.mcp[3] * hand.mcp[4]
    + hand.tip[3] * hand.mcp[2] * hand.mcp[4]
    + hand.tip[4] * hand.mcp[2] * hand.mcp[3]

RatioDen3 == hand.mcp[2] * hand.mcp[3] * hand.mcp[4]

\* nonIndexRatio > 1.2 (Infinity included, NaN excluded)
NonIndexAboveGuard ==
    /\ ~NonIndexNaN
    /\ \/ ~NonIndexFinite
       \/ 100 * RatioSum3 > 360 * RatioDen3

\* nonIndexRatio <= 1.2
NonIndexAtMostGuard == NonIndexFinite /\ 100 * RatioSum3 <= 360 * RatioDen3

\* C19: every hand with avgRatio < 1.35 is classified Fist (isFist true,
\* isPinch and isOpen false), whatever its thumb-index pinch distance, its
\* nonIndexRatio and its spreadFactor are.
C19_LowAverageIsFist ==
    (pc = "classified" /\ AvgRatioBelowFist) =>
        (gesture.isFist /\ ~gesture.isPinch /\ ~gesture.isOpen)

\* A Fist verdict on a hand whose thumb and index tips touch, whose other
\* three fingers are extended beyond 1.2 and whose spread is wide.
C19_Witness ==
    /\ pc = "classified"
    /\ AvgRatioBelowFist
    /\ hand.pinchDist < PinchThreshold
    /\ NonIndexAboveGuard
    /\ 10 * hand.spreadWidth > 16 * hand.palmWidth /\ hand.palmWidth > 0
    /\ gesture.isFist /\ ~gesture.isPinch /\ ~gesture.isOpen

\* C20 as stated: a hand with pinchDist < 0.08 and nonIndexRatio <= 1.2 is
\* never classified Pinch, and Pinch is returned exactly when
\* avgRatio >= 1.35, pinchDist < 0.08 and nonIndexRatio > 1.2.
C20_PinchIffAverageAtLeast ==
    pc = "classified" =>
        /\ (hand.pinchDist < PinchThreshold /\ NonIndexAtMostGuard)
               => ~gesture.isPinch
        /\ gesture.isPinch <=>
               (AvgRatioAtLeastFist /\ hand.pinchDist < PinchThreshold
                /\ NonIndexAboveGuard)

\* C20: a hand with pinchDist < 0.08 and nonIndexRatio <= 1.2 is never
\* classified Pinch, and Pinch is returned exactly when the test
\* avgRatio < 1.35 fails (which it also does when avgRatio is NaN),
\* pinchDist < 0.08 and nonIndexRatio > 1.2.
C20_PinchIffNotFist ==
    pc = "classified" =>
        /\ (hand.pinchDist < PinchThreshold /\ NonIndexAtMostGuard)
               => ~gesture.isPinch
        /\ gesture.isPinch <=>
               (~AvgRatioBelowFist /\ hand.pinchDist < PinchThreshold
                /\ NonIndexAboveGuard)

\* Rule 2 is reached (avgRatio is exactly 1.35) with the tips touching and
\* nonIndexRatio exactly 1.2: the hand is not a Pinch.
C20_Witness ==
    /\ pc = "classified"
    /\ hand.pinchDist < PinchThreshold
    /\ AllRatiosFinite
    /\ 100 * RatioSum4 = 540 * RatioDen4
    /\ 100 * RatioSum3 = 360 * RatioDen3
    /\ ~gesture.isFist
    /\ ~gesture.isPinch

\* The number of verdict flags that are true in the published gesture.
FlagsSet == Cardinality({f \in {"isFist", "isPinch", "isOpen"} : gesture[f]})

\* C21: every published verdict is mutually exclusive: at most one of
\* isFist, isPinch, isOpen is true, for every classified hand and for the
\* frame without a hand.
C21_VerdictExclusive ==
    /\ FlagsSet <= 1
    /\ pc = "nohand" => FlagsSet = 0

\* An Open verdict on a hand that is a pinch candidate and fails rule 2
\* only through nonIndexRatio: one flag is published.
C21_Witness ==
    /\ pc = "classified"
    /\ hand.pinchDist < PinchThreshold
    /\ NonIndexAtMostGuard
    /\ gesture.isOpen
    /\ FlagsSet = 1

\* avgRatio > c100 / 100 (Infinity included, NaN excluded)
AvgRatioAbove(c100) ==
    /\ ~SomeRatioNaN
    /\ \/ ~AllRatiosFinite
       \/ 100 * RatioSum4 > 4 * c100 * RatioDen4

\* spreadFactor > 1.6, the palm width replaced by 1 (100 hundredths) when
\* it is 0
SpreadFactorAbove ==
    \/ hand.palmWidth = 0 /\ 10 * hand.spreadWidth > 1600
    \/ hand.palmWidth > 0 /\ 10 * hand.spreadWidth > 16 * hand.palmWidth

\* C22: a hand that is neither Fist nor Pinch is classified Open exactly
\* when avgRatio > 1.5 or (spreadFactor > 1.6 and avgRatio > 1.25), the palm
\* width in spreadFactor replaced by 1 when it is 0; otherwise no flag is
\* set (None).
C22_OpenRule ==
    (pc = "classified" /\ ~gesture.isFist /\ ~gesture.isPinch) =>
        /\ gesture.isOpen <=>
               (AvgRatioAbove(150) \/ (SpreadFactorAbove /\ AvgRatioAbove(125)))
        /\ ~gesture.isOpen => FlagsSet = 0

\* Open through the spread rule alone on a hand whose palm width is 0.
C22_Witness ==
    /\ pc = "classified"
    /\ hand.palmWidth = 0
    /\ ~AvgRatioAbove(150)
    /\ gesture.isOpen
    /\ ~gesture.isFist /\ ~gesture.isPinch

\* The pointer is taken from the thumb and index tips.
PinchZone == gesture.isPinch \/ hand.pinchDist < LoosePinchThreshold

\* C23: the published pointer of a hand is (1 - rawX, rawY), with
\* (rawX, rawY) the midpoint of thumb tip and index tip when the verdict is
\* Pinch or pinchDist < 0.15, and the midpoint of index MCP and pinky MCP
\* otherwise; raw x = 0.3 gives x = 0.7.  (Positions are twice the
\* midpoint, in hundredths.)
C23_PointerMirrored ==
    pc = "classified" =>
        /\ PinchZone =>
               gesture.position =
                   <<200 - (hand.thumbTip[1] + hand.indexTip[1]),
                     hand.thumbTip[2] + hand.indexTip[2]>>
        /\ ~PinchZone =>
               gesture.position =
                   <<200 - (hand.indexMcp[1] + hand.pinkyMcp[1]),
                     hand.indexMcp[2] + hand.pinkyMcp[2]>>
        /\ (PinchZone /\ hand.thumbTip[1] + hand.indexTip[1] = 60) =>
               gesture.position[1] = 140

\* Raw x = 0.3 in the pinch zone is published as x = 0.7.
C23_Witness ==
    /\ pc = "classified"
    /\ PinchZone
    /\ hand.thumbTip[1] + hand.indexTip[1] = 60
    /\ gesture.position[1] = 140

\* C24: two consecutive controller transitions are more than 1000ms of
\* Date.now() apart: a frame on which the controller calls setAppState,
\* after an earlier such frame at time t, has now > t + 1000, whatever
\* frames lie in between.
C24_SwitchesCooldownApart ==
    [][(ControllerStep /\ frame'.ctrlSet # "none" /\ switchedAt # NoTime)
       => clock' > switchedAt + SwitchCooldown]_vars

\* The re-render that commits the frame's queued updates.
RenderStep == pc = "render" /\ pc' = "controller"

\* The changes of appState and the frame that causes each.
AllowedChange(from, to) ==
    \/ from = CHAOS /\ to = FORMED /\ frame.ctrlSet = FORMED
          /\ frame.verdict = "Fist"
    \/ from \in {FORMED, PHOTO_VIEW} /\ to = CHAOS /\ frame.ctrlSet = CHAOS
          /\ frame.verdict = "Open"
    \/ from \in {CHAOS, FORMED} /\ to = PHOTO_VIEW /\ frame.picked # NoHit

\* C25: starting from FORMED, every change of appState is CHAOS -> FORMED
\* (Fist), FORMED -> CHAOS (Open), PHOTO_VIEW -> CHAOS (Open), or
\* CHAOS -> PHOTO_VIEW or FORMED -> PHOTO_VIEW (picker hit); PHOTO_VIEW
\* never changes to FORMED and FORMED is entered only from CHAOS.  appState
\* changes in the re-render only.
C25_AllowedTransitions ==
    [][/\ appState' # appState => RenderStep /\ AllowedChange(appState, appState')
       /\ (appState = PHOTO_VIEW => appState' # FORMED)
       /\ (appState' = FORMED /\ appState # FORMED => appState = CHAOS)]_vars

\* The re-render just committed PHOTO_VIEW -> CHAOS on an Open frame; a
\* picker hit had taken the state to PHOTO_VIEW before.
C25_Witness ==
    /\ pc = "controller"
    /\ frame.leftPhoto
    /\ appState = CHAOS
    /\ lastHit # NoRay
    /\ gesture.isOpen

\* The ids of the photos.
PhotoIds == 0..(NumPhotos - 1)

\* C26: in every state with appState = PHOTO_VIEW a selection exists
\* (activePhotoId is a photo's id, not null): PHOTO_VIEW is requested only
\* together with a selection, and no frame requests clearing the selection
\* while the state is PHOTO_VIEW.
C26_PhotoViewHasSelection ==
    /\ appState = PHOTO_VIEW =>
           /\ activePhotoId \in PhotoIds
           /\ \A i \in 1..Len(activeQueue) : activeQueue[i] # NoPhoto
    /\ Requested = PHOTO_VIEW => Apply(activePhotoId, activeQueue) \in PhotoIds

\* In PHOTO_VIEW with a selection, after a picker frame that had no ray to
\* scan and so took the clearing branch's test.
C26_Witness ==
    /\ pc = "render"
    /\ appState = PHOTO_VIEW
    /\ rayRef = NoRay
    /\ activePhotoId \in PhotoIds
    /\ activeQueue = <<>>

\* C27: the controller changes the state on no frame within 500ms after
\* a frame whose verdict was Pinch, rising edge or held: a Pinch frame
\* calls no setAppState, and a frame that does, after a Pinch frame at time
\* t, has now > t + 500.
C27_NoSwitchAfterPinch ==
    [][ControllerStep =>
         /\ frame'.verdict = "Pinch" => frame'.ctrlSet = "none"
         /\ (frame'.ctrlSet # "none" /\ pinchedAt # NoTime)
                => clock' > pinchedAt + PinchCooldown]_vars

\* An Open frame in FORMED within 500ms of a Pinch frame, with no switch
\* cooldown running, requests nothing.
C27_Witness ==
    /\ pc = "picker"
    /\ frame.verdict = "Open"
    /\ appState = FORMED
    /\ pinchedAt # NoTime
    /\ switchedAt = NoTime
    /\ frame.ctrlSet = "none"
    /\ appStateQueue = <<>>

\* C28: at most one ray is pending, and it is the latest one made: a
\* rising edge overwrites an unconsumed earlier ray.  A picker hit is made
\* by the latest ray and consumes it, so no hit is followed by a hit of an
\* older (or the same) ray.
C28_LatestRayWins ==
    [][/\ rayRef' \in {NoRay, raysMade'}
       /\ (ControllerStep /\ frame'.emitted)
              => rayRef' = raysMade' /\ raysMade' = raysMade + 1
       /\ (PickerStep /\ frame'.picked # NoHit)
              => /\ rayRef = raysMade
                 /\ rayRef > lastHit
                 /\ lastHit' = rayRef
                 /\ rayRef' = NoRay]_vars

\* A second ray has just replaced the first, which had never hit a photo
\* and was still pending.
C28_Witness ==
    /\ pc = "picker"
    /\ frame.emitted
    /\ raysMade = 2
    /\ rayRef = 2
    /\ lastHit = NoRay
    /\ rayScanned = FALSE

====
